---- MODULE Spec2Model ----
(***************************************************************************)
(* Model of graphgallery/gallery/trainer.py: the Trainer lifecycle         *)
(* (process, build, build_from_model, train, test, predict, reset_weights, *)
(* remove_weights) and setup_callbacks.                                    *)
(*                                                                         *)
(* Strings the code inspects (monitor names, checkpoint paths) are         *)
(* sequences of characters, so startswith/endswith/slicing/concatenation   *)
(* are computed as Python computes them.  Weights are abstracted to a      *)
(* number: a fresh model has one of FreshWeights, every train_step adds 1. *)
(* train() is a sequence of steps (pc); every other method is one step     *)
(* followed by Return, which drops the call's locals.                      *)
(***************************************************************************)
EXTENDS Integers, Sequences, FiniteSets, TLC

VARIABLES
    is_processed,   \* Trainer.is_processed
    model,          \* self._model: "None", "keras" (tf.keras.Model with weights) or "other"
    weights,        \* value of model.weights
    stop_training,  \* model.stop_training
    backup,         \* self.backup: NoBackup or a weights value
    cfg,            \* self.cfg.train
    files,          \* file system: path -> [w, call]
    pc,             \* position in the running method
    epoch,          \* train's loop variable
    events,         \* steps and callback events of the running call, in order
    logs,           \* train's logs (BunchDict)
    callbacks,      \* callbacks constructed by setup_callbacks
    validation,     \* train's local: val_data is not None
    exc,            \* an exception is propagating out of train's try block
    result,         \* outcome of the call that just finished
    op,             \* the method that is running or has just finished
    cfg_in,         \* history: cfg.train after merge_from_dict, before setup_callbacks
    calls,          \* number of train calls made so far
    built_w         \* history: weights of the model when build/build_from_model assigned it

vars == <<is_processed, model, weights, stop_training, backup, cfg, files, pc,
          epoch, events, logs, callbacks, validation, exc, result, op, cfg_in,
          calls, built_w>>

\* ---------------------------------------------------------------- bounds
MaxEpochs == 2
MaxTrainCalls == 2

\* ------------------------------------------------------------- strings
val_ == <<"v", "a", "l", "_">>
loss == <<"l", "o", "s", "s">>
acc == <<"a", "c", "c">>
f1 == <<"f", "1">>
val_loss == val_ \o loss
val_val_loss == val_ \o val_ \o loss
w_path == <<"w">>
\* gg.file_ext() for the tensorflow backend this module imports
file_ext == <<".", "h", "5">>
w_h5 == w_path \o file_ext

\* str.startswith / str.endswith
startswith(s, p) == Len(s) >= Len(p) /\ SubSeq(s, 1, Len(p)) = p
endswith(s, p) == Len(s) >= Len(p) /\ SubSeq(s, Len(s) - Len(p) + 1, Len(s)) = p
\* s[n:]
slice_from(s, n) == SubSeq(s, n + 1, Len(s))

\* names of the metrics train_step_on_batch / test_step_on_batch return. They are
\* the model's own: this model reports a loss, an accuracy and a metric that its
\* author named "val_loss"
MetricNames == {loss, acc, val_loss}

NoBackup == -1
FreshWeights == {0}

\* -------------------------------------------------------------- config
\* cfg.train as set up by setup_cfg (default_cfg + custom_setup)
DefaultCfg ==
    [epochs |-> 1,
     verbose |-> 1,
     ckpt_enabled |-> TRUE,
     ckpt_monitor |-> val_loss,
     ckpt_path |-> w_path,
     ckpt_save_best_only |-> TRUE,
     ckpt_save_weights_only |-> TRUE,
     ckpt_remove_weights |-> TRUE,
     es_enabled |-> FALSE,
     es_monitor |-> val_loss,
     nan_enabled |-> FALSE]

\* keyword arguments a caller passes to train(**kwargs)
KwargsList ==
    << [k \in {} |-> 0],
       [epochs |-> 0],
       [epochs |-> MaxEpochs],
       [verbose |-> 0],
       [verbose |-> 2],
       [verbose |-> 3],
       [ckpt_save_weights_only |-> FALSE],
       [ckpt_remove_weights |-> FALSE],
       [ckpt_enabled |-> FALSE, es_enabled |-> TRUE],
       [es_enabled |-> TRUE, es_monitor |-> loss, nan_enabled |-> TRUE],
       [ckpt_monitor |-> val_val_loss],
       [ckpt_monitor |-> f1, ckpt_path |-> w_h5],
       [ckpt_save_best_only |-> FALSE, ckpt_monitor |-> acc] >>

\* cfg.merge_from_dict(kwargs)
merge_from_dict(c, kw) ==
    [k \in DOMAIN c |-> IF k \in DOMAIN kw THEN kw[k] ELSE c[k]]

NoCallbacks ==
    [es |-> [on |-> FALSE, monitor |-> <<>>],
     mc |-> [on |-> FALSE, monitor |-> <<>>, path |-> <<>>,
             save_best_only |-> FALSE, save_weights_only |-> FALSE],
     nan |-> FALSE]

strip_monitor_any(enabled, monitor, val) ==
    IF ~val /\ startswith(monitor, val_)
    THEN slice_from(monitor, 4)
    ELSE monitor

\* the monitor a callback is given: without validation a leading "val_" is cut
strip_monitor(enabled, monitor, val) ==
    IF ~val /\ enabled /\ startswith(monitor, val_)
    THEN slice_from(monitor, 4)
    ELSE monitor

normalize_path_always(enabled, path) ==
    IF enabled THEN path \o file_ext ELSE path

\* the checkpoint path: the file extension is appended when it is missing
normalize_path(enabled, path) ==
    IF enabled /\ ~endswith(path, file_ext) THEN path \o file_ext ELSE path

setup_callbacks_copy(c, val) ==
    LET c1 == [c EXCEPT
                 !.ckpt_monitor = strip_monitor(c.ckpt_enabled, c.ckpt_monitor, val),
                 !.es_monitor = strip_monitor(c.es_enabled, c.es_monitor, val)]
        c2 == [c1 EXCEPT !.ckpt_path = normalize_path(c1.ckpt_enabled, c1.ckpt_path)]
    IN  [cfg |-> c,
         callbacks |->
            [es |-> IF c2.es_enabled
                    THEN [on |-> TRUE, monitor |-> c2.es_monitor]
                    ELSE NoCallbacks.es,
             mc |-> IF c2.ckpt_enabled
                    THEN [on |-> TRUE, monitor |-> c2.ckpt_monitor, path |-> c2.ckpt_path,
                          save_best_only |-> c2.ckpt_save_best_only,
                          save_weights_only |-> c2.ckpt_save_weights_only]
                    ELSE NoCallbacks.mc,
             nan |-> c2.nan_enabled]]

\* setup_callbacks(cfg, callbacks, validation): the updated cfg and the callbacks
setup_callbacks(c, val) ==
    LET c1 == [c EXCEPT
                 !.ckpt_monitor = strip_monitor(c.ckpt_enabled, c.ckpt_monitor, val),
                 !.es_monitor = strip_monitor(c.es_enabled, c.es_monitor, val)]
        c2 == [c1 EXCEPT !.ckpt_path = normalize_path(c1.ckpt_enabled, c1.ckpt_path)]
    IN  [cfg |-> c2,
         callbacks |->
            [es |-> IF c2.es_enabled
                    THEN [on |-> TRUE, monitor |-> c2.es_monitor]
                    ELSE NoCallbacks.es,
             mc |-> IF c2.ckpt_enabled
                    THEN [on |-> TRUE, monitor |-> c2.ckpt_monitor, path |-> c2.ckpt_path,
                          save_best_only |-> c2.ckpt_save_best_only,
                          save_weights_only |-> c2.ckpt_save_weights_only]
                    ELSE NoCallbacks.mc,
             nan |-> c2.nan_enabled]]

\* --------------------------------------------------------- file system
NoFiles == [p \in {} |-> 0]
exists(fs, p) == p \in DOMAIN fs
write_file(fs, p, c) == [q \in DOMAIN fs \cup {p} |-> IF q = p THEN c ELSE fs[q]]
remove_paths(fs, ps) == [q \in DOMAIN fs \ ps |-> fs[q]]

\* extra files of a TensorFlow-format checkpoint
ExtraExts ==
    { <<".", "i", "n", "d", "e", "x">>,
      <<".", "d", "a", "t", "a", "-", "0", "0", "0", "0", "0", "-", "o", "f", "-",
        "0", "0", "0", "0", "1">>,
      <<".", "d", "a", "t", "a", "-", "0", "0", "0", "0", "0", "-", "o", "f", "-",
        "0", "0", "0", "0", "2">>,
      <<".", "d", "a", "t", "a", "-", "0", "0", "0", "0", "1", "-", "o", "f", "-",
        "0", "0", "0", "0", "2">> }
checkpoint_file == <<"c", "h", "e", "c", "k", "p", "o", "i", "n", "t">>

remove_extra_tf_files(fs, filepath) ==
    remove_paths(fs, {filepath \o e : e \in ExtraExts} \cup {checkpoint_file})

\* Trainer.remove_weights
remove_weights(fs, c) ==
    LET fs1 == remove_extra_tf_files(fs, c.ckpt_path)
    IN  IF exists(fs1, c.ckpt_path) THEN remove_paths(fs1, {c.ckpt_path}) ELSE fs1

\* ---------------------------------------------------------------- init
NoLogs == [k \in {} |-> 0]

Init ==
    /\ is_processed = FALSE
    /\ model = "None"
    /\ weights = 0
    /\ stop_training = FALSE
    /\ backup = NoBackup
    /\ cfg = DefaultCfg
    /\ files = NoFiles
    /\ pc = "idle"
    /\ epoch = 0
    /\ events = <<>>
    /\ logs = NoLogs
    /\ callbacks = NoCallbacks
    /\ validation = FALSE
    /\ exc = FALSE
    /\ result = "none"
    /\ op = "none"
    /\ cfg_in = DefaultCfg
    /\ calls = 0
    /\ built_w = 0

\* an entry of events: what ran, in which epoch, model.stop_training when it
\* finished, and whether it raised
Ev(n, st, r) == [name |-> n, epoch |-> epoch, stop |-> st, raised |-> r]

trainer_vars == <<is_processed, model, weights, stop_training, backup, cfg, files, calls, built_w>>
local_vars == <<epoch, events, logs, callbacks, validation, exc, cfg_in>>

\* a method returns (or raises) to the caller: its locals are gone
Return ==
    /\ pc = "done"
    /\ pc' = "idle"
    /\ epoch' = 0
    /\ events' = <<>>
    /\ logs' = NoLogs
    /\ callbacks' = NoCallbacks
    /\ validation' = FALSE
    /\ exc' = FALSE
    /\ result' = "none"
    /\ op' = "none"
    /\ cfg_in' = cfg
    /\ UNCHANGED trainer_vars

\* Trainer.process(**kwargs); ok = process_step and the transforms do not raise
process(ok) ==
    /\ pc = "idle"
    /\ pc' = "done"
    /\ op' = "process"
    /\ IF ok
       THEN is_processed' = TRUE /\ result' = "self"
       ELSE is_processed' = is_processed /\ result' = "Error"
    /\ UNCHANGED <<model, weights, stop_training, backup, cfg, files, calls, built_w>>
    /\ UNCHANGED local_vars

\* the model setter: a tf.keras.Model with weights is backed up
set_backup(kind, w) == IF kind = "keras" THEN w ELSE backup

build_unchecked == TRUE

\* `if not self.is_processed: raise RuntimeError` of build and build_from_model
build_allowed == is_processed

\* Trainer.build(**kwargs); ok = builder does not raise
build(kind, w, ok) ==
    /\ pc = "idle"
    /\ pc' = "done"
    /\ op' = "build"
    /\ IF ~build_allowed
       THEN /\ result' = "RuntimeError"
            /\ UNCHANGED <<model, weights, stop_training, backup, built_w>>
       ELSE IF ~ok
       THEN /\ result' = "Error"
            /\ UNCHANGED <<model, weights, stop_training, backup, built_w>>
       ELSE /\ result' = "self"
            /\ model' = kind
            /\ weights' = w
            /\ stop_training' = FALSE
            /\ backup' = set_backup(kind, w)
            /\ built_w' = w
    /\ UNCHANGED <<is_processed, cfg, files, calls>>
    /\ UNCHANGED local_vars

\* Trainer.build_from_model(model); st = the given model's stop_training
build_from_model(kind, w, st) ==
    /\ pc = "idle"
    /\ pc' = "done"
    /\ op' = "build_from_model"
    /\ IF ~build_allowed
       THEN /\ result' = "RuntimeError"
            /\ UNCHANGED <<model, weights, stop_training, backup, built_w>>
       ELSE /\ result' = "self"
            /\ model' = kind
            /\ weights' = w
            /\ stop_training' = st
            /\ backup' = set_backup(kind, w)
            /\ built_w' = w
    /\ UNCHANGED <<is_processed, cfg, files, calls>>
    /\ UNCHANGED local_vars

update(d, u) == [k \in DOMAIN d \cup DOMAIN u |-> IF k \in DOMAIN u THEN u[k] ELSE d[k]]

\* the dict a step returns in epoch e: every metric, tagged with where it came from
step_logs(src, e) == [k \in MetricNames |-> [src |-> src, epoch |-> e]]
val_logs_unprefixed(vl) == vl

\* {("val_" + k): v for k, v in valid_logs.items()}
val_logs(vl) == [k \in {val_ \o m : m \in DOMAIN vl} |-> vl[slice_from(k, 4)]]

\* where `for epoch in range(cfg.epochs)` goes with loop variable e
for_epoch(e) == IF e < cfg.epochs THEN "on_epoch_begin" ELSE "on_train_end"

raise_to_load ==
    /\ exc' = TRUE
    /\ pc' = IF cfg.ckpt_enabled THEN "load" ELSE "finally"

\* an exception leaves the try block: the finally clause runs next
raise_in_try ==
    /\ exc' = TRUE
    /\ pc' = "finally"

model_never_none == FALSE

\* `if model is None` of train, `if not self.model` of test and predict
no_model == model = "None"

\* Trainer.train(train_data, val_data, **kwargs), lines 168-210
train(kw, val) ==
    /\ pc = "idle"
    /\ calls < MaxTrainCalls
    /\ calls' = calls + 1
    /\ op' = "train"
    /\ cfg_in' = merge_from_dict(cfg, kw)
    /\ IF no_model
       THEN /\ cfg' = merge_from_dict(cfg, kw)
            /\ result' = "RuntimeError"
            /\ pc' = "done"
            /\ UNCHANGED <<stop_training, callbacks, validation>>
       ELSE LET r == setup_callbacks(merge_from_dict(cfg, kw), val)
            IN  /\ cfg' = r.cfg
                /\ callbacks' = r.callbacks
                /\ validation' = val
                /\ stop_training' = FALSE
                /\ result' = "none"
                /\ pc' = "on_train_begin"
    /\ epoch' = 0
    /\ events' = <<>>
    /\ logs' = NoLogs
    /\ exc' = FALSE
    /\ UNCHANGED <<is_processed, model, weights, backup, files, built_w>>

\* callbacks.on_train_begin(), before the try block
on_train_begin(raises) ==
    /\ pc = "on_train_begin"
    /\ events' = Append(events, Ev("on_train_begin", stop_training, raises))
    /\ IF raises
       THEN pc' = "done" /\ result' = "Error"
       ELSE pc' = for_epoch(0) /\ result' = result
    /\ UNCHANGED <<epoch, logs, callbacks, validation, exc, op, cfg_in>>
    /\ UNCHANGED trainer_vars

\* callbacks.on_epoch_begin(epoch)
on_epoch_begin(raises) ==
    /\ pc = "on_epoch_begin"
    /\ events' = Append(events, Ev("on_epoch_begin", stop_training, raises))
    /\ IF raises THEN raise_in_try ELSE pc' = "on_train_batch_begin" /\ exc' = exc
    /\ UNCHANGED <<epoch, logs, callbacks, validation, result, op, cfg_in>>
    /\ UNCHANGED trainer_vars

\* callbacks.on_train_batch_begin(0)
on_train_batch_begin(raises) ==
    /\ pc = "on_train_batch_begin"
    /\ events' = Append(events, Ev("on_train_batch_begin", stop_training, raises))
    /\ IF raises THEN raise_in_try ELSE pc' = "train_step" /\ exc' = exc
    /\ UNCHANGED <<epoch, logs, callbacks, validation, result, op, cfg_in>>
    /\ UNCHANGED trainer_vars

\* train_logs = self.train_step(train_data); logs.update(train_logs)
train_step(raises) ==
    /\ pc = "train_step"
    /\ events' = Append(events, Ev("train_step", stop_training, raises))
    /\ IF raises
       THEN /\ raise_in_try
            /\ UNCHANGED <<weights, logs>>
       ELSE /\ weights' = weights + 1
            /\ logs' = update(logs, step_logs("train", epoch))
            /\ pc' = IF validation THEN "test_step" ELSE "on_train_batch_end"
            /\ exc' = exc
    /\ UNCHANGED <<epoch, callbacks, validation, result, op, cfg_in>>
    /\ UNCHANGED <<is_processed, model, stop_training, backup, cfg, files, calls, built_w>>

\* valid_logs = self.test_step(val_data); logs.update(val_ + k ...)
test_step(raises) ==
    /\ pc = "test_step"
    /\ events' = Append(events, Ev("test_step", stop_training, raises))
    /\ IF raises
       THEN /\ raise_in_try
            /\ UNCHANGED logs
       ELSE /\ logs' = update(logs, val_logs(step_logs("val", epoch)))
            /\ pc' = "on_train_batch_end"
            /\ exc' = exc
    /\ UNCHANGED <<epoch, callbacks, validation, result, op, cfg_in>>
    /\ UNCHANGED trainer_vars

\* callbacks.on_train_batch_end(len(train_data), logs); TerminateOnNaN may stop
on_train_batch_end(raises, stop) ==
    /\ pc = "on_train_batch_end"
    /\ stop => callbacks.nan
    /\ events' = Append(events, Ev("on_train_batch_end", stop_training \/ stop, raises))
    /\ stop_training' = (stop_training \/ stop)
    /\ IF raises THEN raise_in_try ELSE pc' = "on_epoch_end" /\ exc' = exc
    /\ UNCHANGED <<epoch, logs, callbacks, validation, result, op, cfg_in>>
    /\ UNCHANGED <<is_processed, model, weights, backup, cfg, files, calls, built_w>>

\* ModelCheckpoint saves at the end of an epoch; with save_best_only only
\* when the monitored value is in the logs and has improved
may_save(improved) ==
    /\ callbacks.mc.on
    /\ callbacks.mc.save_best_only => (callbacks.mc.monitor \in DOMAIN logs /\ improved)

\* callbacks.on_epoch_end(epoch, logs); EarlyStopping may stop, ModelCheckpoint may save
on_epoch_end(raises, stop, improved, saved) ==
    /\ pc = "on_epoch_end"
    /\ stop => (callbacks.es.on /\ callbacks.es.monitor \in DOMAIN logs)
    /\ saved => may_save(improved)
    /\ ~raises => (saved <=> may_save(improved))
    /\ events' = Append(events, Ev("on_epoch_end", stop_training \/ stop, raises))
    /\ stop_training' = (stop_training \/ stop)
    /\ files' = IF saved
                THEN write_file(files, callbacks.mc.path, [w |-> weights, call |-> calls])
                ELSE files
    /\ IF raises THEN raise_in_try ELSE pc' = "progbar" /\ exc' = exc
    /\ UNCHANGED <<epoch, logs, callbacks, validation, result, op, cfg_in>>
    /\ UNCHANGED <<is_processed, model, weights, backup, cfg, calls, built_w>>

\* lines 233-241: the progress output, then the early-stopping break.
\* `epochs` is not a name of train or of the module: the f-string raises NameError
progbar_update ==
    /\ pc = "progbar"
    /\ IF cfg.verbose > 2
       THEN /\ raise_in_try
            /\ UNCHANGED epoch
       ELSE /\ exc' = exc
            /\ IF stop_training
               THEN pc' = "on_train_end" /\ epoch' = epoch
               ELSE pc' = for_epoch(epoch + 1) /\ epoch' = epoch + 1
    /\ UNCHANGED <<events, logs, callbacks, validation, result, op, cfg_in>>
    /\ UNCHANGED trainer_vars

\* callbacks.on_train_end()
on_train_end(raises) ==
    /\ pc = "on_train_end"
    /\ events' = Append(events, Ev("on_train_end", stop_training, raises))
    /\ IF raises
       THEN raise_in_try
       ELSE /\ pc' = IF cfg.ckpt_enabled THEN "load" ELSE "finally"
            /\ exc' = exc
    /\ UNCHANGED <<epoch, logs, callbacks, validation, result, op, cfg_in>>
    /\ UNCHANGED trainer_vars

\* lines 244-248: model.load_weights(path) or self.model = model.load(path);
\* loading a file that does not exist raises
load ==
    /\ pc = "load"
    /\ IF exists(files, cfg.ckpt_path)
       THEN /\ weights' = files[cfg.ckpt_path].w
            /\ IF cfg.ckpt_save_weights_only
               THEN UNCHANGED <<backup, stop_training>>
               ELSE /\ backup' = set_backup(model, files[cfg.ckpt_path].w)
                    /\ stop_training' = FALSE
            /\ exc' = exc
            /\ events' = Append(events, Ev("load", stop_training', FALSE))
       ELSE /\ exc' = TRUE
            /\ events' = Append(events, Ev("load", stop_training, TRUE))
            /\ UNCHANGED <<weights, backup, stop_training>>
    /\ pc' = "finally"
    /\ UNCHANGED <<epoch, logs, callbacks, validation, result, op, cfg_in>>
    /\ UNCHANGED <<is_processed, model, cfg, files, calls, built_w>>

cleanup_unless_raised == cfg.ckpt_enabled /\ cfg.ckpt_remove_weights /\ ~exc

\* `if ckpt_cfg.enabled and ckpt_cfg.remove_weights` of the finally clause
cleanup_due == cfg.ckpt_enabled /\ cfg.ckpt_remove_weights

\* the finally clause, then `return history` or the pending exception
finally ==
    /\ pc = "finally"
    /\ IF cleanup_due
       THEN /\ files' = remove_weights(files, cfg)
            /\ events' = Append(events, Ev("remove_weights", stop_training, FALSE))
       ELSE UNCHANGED <<files, events>>
    /\ result' = IF exc THEN "Error" ELSE "History"
    /\ pc' = "done"
    /\ UNCHANGED <<epoch, logs, callbacks, validation, exc, op, cfg_in>>
    /\ UNCHANGED <<is_processed, model, weights, stop_training, backup, cfg, calls, built_w>>

\* Trainer.test(data, **kwargs)
test ==
    /\ pc = "idle"
    /\ pc' = "done"
    /\ op' = "test"
    /\ IF no_model
       THEN result' = "RuntimeError" /\ events' = <<>>
       ELSE result' = "logs" /\ events' = <<Ev("test_step", stop_training, FALSE)>>
    /\ UNCHANGED <<epoch, logs, callbacks, validation, exc, cfg_in>>
    /\ UNCHANGED trainer_vars

\* Trainer.predict(predict_data, return_logits)
predict ==
    /\ pc = "idle"
    /\ pc' = "done"
    /\ op' = "predict"
    /\ IF no_model
       THEN result' = "RuntimeError" /\ events' = <<>>
       ELSE result' = "logits" /\ events' = <<Ev("predict_step", stop_training, FALSE)>>
    /\ UNCHANGED <<epoch, logs, callbacks, validation, exc, cfg_in>>
    /\ UNCHANGED trainer_vars

\* Trainer.reset_weights(); a model without a weights list raises or assigns nothing
reset_weights(fails) ==
    /\ pc = "idle"
    /\ pc' = "done"
    /\ op' = "reset_weights"
    /\ fails => (backup # NoBackup /\ model # "keras")
    /\ model = "None" => (backup = NoBackup \/ fails)
    /\ IF backup = NoBackup
       THEN result' = "RuntimeError" /\ weights' = weights
       ELSE IF fails
       THEN result' = "Error" /\ weights' = weights
       ELSE /\ result' = "None"
            /\ weights' = IF model = "keras" THEN backup ELSE weights
    /\ UNCHANGED <<is_processed, model, stop_training, backup, cfg, files, calls, built_w>>
    /\ UNCHANGED local_vars

Next ==
    \/ Return
    \/ \E ok \in BOOLEAN : process(ok)
    \/ \E kind \in {"keras", "other"}, w \in FreshWeights, ok \in BOOLEAN :
          build(kind, w, ok)
    \/ \E kind \in {"keras", "other"}, w \in FreshWeights, st \in BOOLEAN :
          build_from_model(kind, w, st)
    \/ \E i \in 1..Len(KwargsList), val \in BOOLEAN : train(KwargsList[i], val)
    \/ \E raises \in BOOLEAN : on_train_begin(raises)
    \/ \E raises \in BOOLEAN : on_epoch_begin(raises)
    \/ \E raises \in BOOLEAN : on_train_batch_begin(raises)
    \/ \E raises \in BOOLEAN : train_step(raises)
    \/ \E raises \in BOOLEAN : test_step(raises)
    \/ \E raises, stop \in BOOLEAN : on_train_batch_end(raises, stop)
    \/ \E raises, stop, improved, saved \in BOOLEAN : on_epoch_end(raises, stop, improved, saved)
    \/ progbar_update
    \/ \E raises \in BOOLEAN : on_train_end(raises)
    \/ load
    \/ finally
    \/ test
    \/ predict
    \/ \E fails \in BOOLEAN : reset_weights(fails)

Spec == Init /\ [][Next]_vars

\* ------------------------------------------------------------- checked properties
\* positions in events of the entries with the given name
Idx(name) == {i \in 1..Len(events) : events[i].name = name}
\* train got past its model check: setup_callbacks has run
SetUp == op = "train" /\ result # "RuntimeError"
\* train's try block was entered: on_train_begin returned
EnteredTry == op = "train" /\ events # <<>> /\ ~events[1].raised

\* C1: build and build_from_model called before a successful process raise
\* RuntimeError and leave the model unassigned, so the model is non-None only
\* when is_processed is True.
C1_BuildAfterProcess ==
    /\ model # "None" => is_processed
    /\ (pc = "done" /\ op \in {"build", "build_from_model"} /\ ~is_processed)
          => (result = "RuntimeError" /\ model = "None")

C1_Witness ==
    pc = "done" /\ op = "build_from_model" /\ ~is_processed /\ result = "RuntimeError"

\* C2: while the model is None, train, test and predict raise RuntimeError and
\* no train_step, test_step, predict_step or callback event has run.
C2_NoStepWithoutModel ==
    model = "None" =>
        /\ events = <<>>
        /\ (pc = "done" /\ op \in {"train", "test", "predict"}) => result = "RuntimeError"

C2_Witness ==
    pc = "done" /\ op = "train" /\ model = "None" /\ result = "RuntimeError"

\* C3: with ModelCheckpoint enabled and remove_weights set, every exit from the
\* try block of train (return, early stop, exception) has run remove_weights last,
\* and no file is left at cfg.train.ModelCheckpoint.path.
C3_CleanupOnEveryExit ==
    (pc = "done" /\ EnteredTry /\ cfg.ckpt_enabled /\ cfg.ckpt_remove_weights)
        => /\ ~exists(files, cfg.ckpt_path)
           /\ events[Len(events)].name = "remove_weights"

C3_Witness ==
    /\ pc = "done" /\ EnteredTry /\ exc
    /\ cfg.ckpt_enabled /\ cfg.ckpt_remove_weights
    /\ \E i \in Idx("train_step") : events[i].raised /\ events[i].epoch = 1

\* C4: reset_weights raises RuntimeError when no backup is stored, and otherwise
\* gives the model the weights it had when it was built.
C4_ResetToFirstBuilt ==
    (pc = "done" /\ op = "reset_weights")
        => /\ backup = NoBackup => result = "RuntimeError"
           /\ model = "keras" => (result = "None" /\ weights = built_w)

\* what setup_callbacks does to one monitor: cut one leading "val_" when there is
\* no validation and the callback is enabled, else leave it
MonitorRule(enabled_in, monitor_in, monitor_out) ==
    IF ~validation /\ enabled_in /\ startswith(monitor_in, val_)
    THEN monitor_in = val_ \o monitor_out
    ELSE monitor_out = monitor_in

C5_Rules ==
    SetUp =>
        /\ MonitorRule(cfg_in.ckpt_enabled, cfg_in.ckpt_monitor, cfg.ckpt_monitor)
        /\ MonitorRule(cfg_in.es_enabled, cfg_in.es_monitor, cfg.es_monitor)
        /\ callbacks.mc.on = cfg_in.ckpt_enabled
        /\ callbacks.es.on = cfg_in.es_enabled
        /\ callbacks.mc.on => callbacks.mc.monitor = cfg.ckpt_monitor
        /\ callbacks.es.on => callbacks.es.monitor = cfg.es_monitor

\* C5 as stated: the rules above, and without validation no enabled callback is
\* constructed with a monitor beginning with "val_".
C5_NoValMonitor ==
    /\ C5_Rules
    /\ (SetUp /\ ~validation) =>
          /\ callbacks.mc.on => ~startswith(callbacks.mc.monitor, val_)
          /\ callbacks.es.on => ~startswith(callbacks.es.monitor, val_)

\* C5, amended: one leading "val_" is cut, so without validation an enabled callback
\* has a monitor beginning with "val_" only if the configured one began with
\* "val_val_"; monitors of disabled callbacks, and all monitors with validation,
\* are unchanged.
C5_OneValPrefixCut ==
    /\ C5_Rules
    /\ (SetUp /\ ~validation) =>
          /\ (callbacks.mc.on /\ startswith(callbacks.mc.monitor, val_))
                => startswith(cfg_in.ckpt_monitor, val_ \o val_)
          /\ (callbacks.es.on /\ startswith(callbacks.es.monitor, val_))
                => startswith(cfg_in.es_monitor, val_ \o val_)

C5_Witness ==
    /\ SetUp /\ ~validation /\ callbacks.mc.on
    /\ cfg_in.ckpt_monitor = val_val_loss
    /\ callbacks.mc.monitor = val_loss

\* the events of one epoch, in order
EpochPattern ==
    IF validation
    THEN <<"on_epoch_begin", "on_train_batch_begin", "train_step", "test_step",
           "on_train_batch_end", "on_epoch_end">>
    ELSE <<"on_epoch_begin", "on_train_batch_begin", "train_step",
           "on_train_batch_end", "on_epoch_end">>
LoopIdx == {i \in 1..Len(events) : \E k \in 1..Len(EpochPattern) : events[i].name = EpochPattern[k]}

\* the ordering part of C6: on_train_begin first and once, then whole epochs
\* 0, 1, ... in the order of EpochPattern, then what follows the loop
EventOrder ==
    (op = "train" /\ events # <<>>) =>
        /\ Idx("on_train_begin") = {1}
        /\ \A i \in LoopIdx :
              /\ \A j \in 2..i : j \in LoopIdx
              /\ events[i].name = EpochPattern[((i - 2) % Len(EpochPattern)) + 1]
              /\ events[i].epoch = (i - 2) \div Len(EpochPattern)

\* C6: the event order above, and on a run in which no step or callback raises
\* on_train_end fires exactly once, after the last on_epoch_end.
C6_EventOrderAndTrainEnd ==
    /\ EventOrder
    /\ (pc = "done" /\ op = "train" /\ events # <<>> /\ \A i \in 1..Len(events) : ~events[i].raised)
          => /\ Cardinality(Idx("on_train_end")) = 1
             /\ \A i \in Idx("on_epoch_end"), j \in Idx("on_train_end") : i < j

\* C7: stop_training is False when training begins; once on_epoch_end has returned
\* with stop_training True there is no further on_epoch_begin or train_step and
\* on_train_end is still fired; at most cfg.epochs epochs are begun.
C7_EarlyStopping ==
    (op = "train" /\ events # <<>>) =>
        /\ ~events[1].stop
        /\ \A i \in Idx("on_epoch_end") :
              (events[i].stop /\ ~events[i].raised)
                 => /\ \A j \in (i + 1)..Len(events) :
                          events[j].name \notin {"on_epoch_begin", "train_step"}
                    /\ pc = "done" => Idx("on_train_end") # {}
        /\ Cardinality(Idx("on_epoch_begin")) <= cfg.epochs

\* C8: when nothing sets stop_training and nothing raises, train runs exactly
\* cfg.epochs epochs and returns the History, whatever cfg.verbose is.
C8_RunsAllEpochs ==
    (/\ pc = "done" /\ SetUp
     /\ \A i \in 1..Len(events) : ~events[i].stop /\ ~events[i].raised)
        => /\ result = "History"
           /\ Cardinality(Idx("on_epoch_end")) = cfg.epochs

\* C9: a reload happens only with ModelCheckpoint enabled, directly after an
\* on_train_end that returned, with no exception before it and before any
\* remove_weights; it reads the file at cfg.train.ModelCheckpoint.path; it always
\* happens when the loop and on_train_end finish without exception.
C9_RestoreThenRemove ==
    op = "train" =>
        /\ \A i \in Idx("load") :
              /\ cfg.ckpt_enabled
              /\ i > 1 /\ events[i - 1].name = "on_train_end"
              /\ \A j \in 1..(i - 1) : ~events[j].raised
              /\ \A j \in Idx("remove_weights") : i < j
        /\ (pc = "finally" /\ events # <<>> /\ events[Len(events)].name = "load"
               /\ ~events[Len(events)].raised)
              => /\ exists(files, cfg.ckpt_path)
                 /\ weights = files[cfg.ckpt_path].w
                 /\ (~cfg.ckpt_save_weights_only /\ model = "keras")
                       => backup = files[cfg.ckpt_path].w
        /\ (pc \in {"finally", "done"} /\ cfg.ckpt_enabled
               /\ \E i \in Idx("on_train_end") : ~events[i].raised)
              => Idx("load") # {}

C9_Witness ==
    /\ pc = "done" /\ op = "train" /\ result = "History"
    /\ Idx("load") # {} /\ Idx("remove_weights") # {}
    /\ Idx("on_epoch_end") # {}

\* C10: whenever train reaches the reload, a file is at the checkpoint path and it
\* was written during this train call.
C10_CheckpointWritten ==
    pc = "load" =>
        /\ exists(files, cfg.ckpt_path)
        /\ files[cfg.ckpt_path].call = calls

\* how many copies of the file extension a path ends with, and the path without them
RECURSIVE trailing_exts(_)
trailing_exts(p) ==
    IF endswith(p, file_ext)
    THEN 1 + trailing_exts(SubSeq(p, 1, Len(p) - Len(file_ext)))
    ELSE 0
RECURSIVE path_stem(_)
path_stem(p) ==
    IF endswith(p, file_ext) THEN path_stem(SubSeq(p, 1, Len(p) - Len(file_ext))) ELSE p

\* what one train call does to the stored path, and which path each user of the
\* checkpoint works on
C11_PathRules ==
    /\ SetUp =>
          /\ path_stem(cfg.ckpt_path) = path_stem(cfg_in.ckpt_path)
          /\ trailing_exts(cfg.ckpt_path) =
                IF cfg_in.ckpt_enabled /\ trailing_exts(cfg_in.ckpt_path) = 0
                THEN 1
                ELSE trailing_exts(cfg_in.ckpt_path)
          /\ callbacks.mc.on => callbacks.mc.path = cfg.ckpt_path
    /\ (SetUp /\ pc = "finally" /\ events # <<>> /\ events[Len(events)].name = "load"
           /\ ~events[Len(events)].raised)
          => (exists(files, callbacks.mc.path) /\ weights = files[callbacks.mc.path].w)
    /\ (SetUp /\ pc = "done" /\ events # <<>>
           /\ events[Len(events)].name = "remove_weights")
          => ~exists(files, callbacks.mc.path)

\* C11 as stated: the rules above, and after a train call the stored path ends
\* with exactly one copy of the extension.
C11_ExactlyOneExt ==
    /\ C11_PathRules
    /\ (SetUp /\ pc = "done") => trailing_exts(cfg.ckpt_path) = 1

\* C11, amended: the extension is appended iff ModelCheckpoint is enabled and the
\* path does not end with it; after a train call with ModelCheckpoint enabled the
\* stored path ends with the extension and a later call appends no further copy;
\* with ModelCheckpoint disabled the path stays as configured; ModelCheckpoint,
\* the reload and remove_weights use the same string.
C11_ExtAppendedOnce ==
    /\ C11_PathRules
    /\ (SetUp /\ cfg.ckpt_enabled) =>
          /\ endswith(cfg.ckpt_path, file_ext)
          /\ endswith(cfg_in.ckpt_path, file_ext) => cfg.ckpt_path = cfg_in.ckpt_path
    /\ (SetUp /\ ~cfg.ckpt_enabled) => cfg.ckpt_path = cfg_in.ckpt_path

C11_Witness ==
    /\ SetUp /\ calls = 2 /\ pc = "done" /\ callbacks.mc.on
    /\ cfg_in.ckpt_path = w_h5 /\ cfg.ckpt_path = w_h5
    /\ cfg_in.ckpt_monitor # f1
    /\ Idx("load") # {} /\ Idx("remove_weights") # {}

\* the keys validation metrics are stored under
ValKeys == {val_ \o k : k \in MetricNames}

\* C12 as stated: the logs handed to on_train_batch_end and on_epoch_end(e) hold,
\* for every metric k, the value train_step returned in epoch e under k and, with
\* validation, the value test_step returned in epoch e under "val_" + k; a
\* validation value is never stored under a training metric's name; without
\* validation no key begins with "val_".
C12_EpochLogs ==
    (op = "train" /\ pc \in {"on_train_batch_end", "on_epoch_end"}) =>
        /\ \A k \in MetricNames :
              /\ k \in DOMAIN logs
              /\ logs[k] = [src |-> "train", epoch |-> epoch]
              /\ validation =>
                    /\ (val_ \o k) \in DOMAIN logs
                    /\ logs[val_ \o k] = [src |-> "val", epoch |-> epoch]
        /\ \A key \in DOMAIN logs :
              /\ logs[key].src = "val" => (validation /\ key \notin MetricNames)
              /\ startswith(key, val_) => validation

\* C12, amended: with validation the logs hold under "val_" + k the value test_step
\* returned in epoch e; they hold under k the value train_step returned in epoch e
\* unless validation is on and k is itself "val_" + a metric name, the one case in
\* which a validation value replaces a training value; without validation a key
\* begins with "val_" only if train_step returned a metric of that name.
C12_EpochLogsUnlessNameClash ==
    (op = "train" /\ pc \in {"on_train_batch_end", "on_epoch_end"}) =>
        /\ DOMAIN logs = MetricNames \cup (IF validation THEN ValKeys ELSE {})
        /\ \A k \in MetricNames :
              /\ validation => logs[val_ \o k] = [src |-> "val", epoch |-> epoch]
              /\ (~validation \/ k \notin ValKeys)
                    => logs[k] = [src |-> "train", epoch |-> epoch]
        /\ \A key \in DOMAIN logs :
              /\ logs[key].src = "val" => (validation /\ key \in ValKeys)
              /\ (startswith(key, val_) /\ ~validation) => key \in MetricNames

C12_Witness ==
    /\ op = "train" /\ pc = "on_epoch_end" /\ validation /\ epoch = 1
    /\ logs[val_loss] = [src |-> "val", epoch |-> 1]
    /\ logs[loss] = [src |-> "train", epoch |-> 1]
    /\ logs[acc] = [src |-> "train", epoch |-> 1]
    /\ logs[val_ \o acc] = [src |-> "val", epoch |-> 1]

\* the step in which train is called
TrainCalled == pc = "idle" /\ op' = "train"

\* the keys setup_callbacks may rewrite
RewrittenKeys == {"ckpt_monitor", "es_monitor", "ckpt_path"}

\* C13: what a train call changes in cfg stays. Only the call of train changes
\* cfg, and no later step of the call or of any other method restores it; the
\* call merges its keyword arguments over the values the earlier calls left, and
\* every merged value stays in cfg except a monitor or path that setup_callbacks
\* rewrites; a call without validation stores each enabled callback's monitor
\* with its leading "val_" cut, a call with validation stores the monitors as
\* merged; the callbacks monitor what cfg then holds. Hence a call with
\* validation that passes no new monitor monitors the metric the earlier calls
\* left in cfg, the stripped one included.
C13_Step ==
    /\ cfg' # cfg => TrainCalled
    /\ TrainCalled =>
          /\ \E i \in 1..Len(KwargsList) :
                \A k \in DOMAIN cfg :
                   cfg_in'[k] = IF k \in DOMAIN KwargsList[i] THEN KwargsList[i][k] ELSE cfg[k]
          /\ \A k \in DOMAIN cfg \ RewrittenKeys : cfg'[k] = cfg_in'[k]
          /\ pc' = "on_train_begin" =>
                /\ callbacks'.mc.on = cfg'.ckpt_enabled
                /\ callbacks'.es.on = cfg'.es_enabled
                /\ callbacks'.mc.on => callbacks'.mc.monitor = cfg'.ckpt_monitor
                /\ callbacks'.es.on => callbacks'.es.monitor = cfg'.es_monitor
                /\ cfg'.ckpt_monitor =
                      IF ~validation' /\ cfg_in'.ckpt_enabled /\ startswith(cfg_in'.ckpt_monitor, val_)
                      THEN slice_from(cfg_in'.ckpt_monitor, 4)
                      ELSE cfg_in'.ckpt_monitor
                /\ cfg'.es_monitor =
                      IF ~validation' /\ cfg_in'.es_enabled /\ startswith(cfg_in'.es_monitor, val_)
                      THEN slice_from(cfg_in'.es_monitor, 4)
                      ELSE cfg_in'.es_monitor
                /\ (validation' /\ callbacks'.mc.on /\ cfg_in'.ckpt_monitor = cfg.ckpt_monitor)
                      => callbacks'.mc.monitor = cfg.ckpt_monitor
                /\ (validation' /\ callbacks'.es.on /\ cfg_in'.es_monitor = cfg.es_monitor)
                      => callbacks'.es.monitor = cfg.es_monitor

C13_CfgChangesPersist == [][C13_Step]_vars

\* a second call, with validation and the default monitor "val_loss" never passed
\* again, monitors "loss": the first call, without validation, left it in cfg
C13_Witness ==
    /\ op = "train" /\ calls = 2 /\ pc = "on_train_begin" /\ validation
    /\ callbacks.mc.on /\ callbacks.mc.monitor = loss
    /\ cfg_in.ckpt_monitor = loss /\ cfg.ckpt_monitor = loss
    /\ DefaultCfg.ckpt_monitor = val_loss
    /\ \A i \in 1..Len(KwargsList) :
          "ckpt_monitor" \in DOMAIN KwargsList[i] => KwargsList[i].ckpt_monitor # loss

====
